---- MODULE Spec2Model ----
(***************************************************************************)
(* Model of the UltraMusicPlayer native battle audio engine:               *)
(*   BattleAudioEngineImpl   UltraMusicPlayer/app/src/main/cpp/            *)
(*                           battle_audio_engine.cpp                       *)
(*   the C API and the JNI   same file, and jni_bridge.cpp                 *)
(*   soundtouch::SoundTouch  app/src/main/cpp/soundtouch/SoundTouch.cpp    *)
(*   BattleLimiter, BattleCompressor, BattleBassBoost                      *)
(*                           app/src/main/cpp/battle_audio_engine.h        *)
(*                                                                         *)
(* Number representation.  The code computes in 32-bit floats; the model   *)
(* computes exactly on fixed-point grids:                                  *)
(*   speed, rate, tempo, pitch ratio     thousandths   (1.0  = 1000)       *)
(*   pitchSemitones                      whole semitones                   *)
(*   sub-harmonic and exciter amounts    hundredths    (1.0  = 100)        *)
(*   bass boost                          whole dB                          *)
(*   float samples of the chain          thousandths of full scale         *)
(*   limiter gain and coefficients       ten-thousandths                   *)
(*   PCM samples                         the 16-bit integers themselves    *)
(***************************************************************************)
EXTENDS Integers, Sequences, FiniteSets, TLC

VARIABLES
    eng,         \* BattleAudioEngineImpl: configuration, parameters, flags
    st,          \* soundtouch::SoundTouch::Impl
    ts,          \* Superpowered::TimeStretching
    rb,          \* RubberBand::RubberBandStretcher
    spfx,        \* Superpowered::Compressor / Limiter / ThreeBandEQ
    limiter,     \* BattleLimiter
    compressor,  \* BattleCompressor
    bassBoost,   \* BattleBassBoost
    psycho,      \* SubHarmonicSynthesizer L/R and BassExciter L/R
    result,      \* what the last nativeProcess call wrote and returned
    hist,        \* frames pushed into / emitted by process since the last clear()
    lastOp,      \* the last call made at the external boundary, with its arguments
    ub,          \* the undefined behaviour executed so far ("none" if none)
    crashed      \* the process was aborted by undefined behaviour

vars == <<eng, st, ts, rb, spfx, limiter, compressor, bassBoost, psycho,
          result, hist, lastOp, ub, crashed>>

(***************************************************************************)
(* Bounds of the model.                                                    *)
(***************************************************************************)
\* Largest caller-side output array of nativeProcess, in samples.
MaxCapacity == 4
\* Most frames pushed between two clear() calls where backends are selected.
BackendPushed == 2
\* Most frames pushed between two clear() calls through the battle chain.
ChainPushed == 2
\* Most frames pushed between two clear() calls where the engine is reconfigured.
ConfigPushed == 2
\* Most frames pushed between two clear() calls through the reference stretcher.
StretchPushed == 6
\* Largest block of one process call on the reference stretcher, in samples.
StretchBlock == 3
\* Largest pitch request, in semitones: one beyond the engine's range.
MaxSemitones == 37
\* Largest backend identifier passed to battle_engine_set_audio_engine.
MaxEngineId == 3

\* Most frames pushed between two clear() calls where rate mode is exercised.
RatePushed == 1

\* Most frames pushed between two backend switches.
SwitchPushed == 2

\* Most frames pushed between two clear() calls where input may be missing.
NullPushed == 2

\* Samples in a block handed to the compressor on its own.
CompressorBlock == 2

\* Most frames pushed between two clear() calls where the limiter is switched.
GatePushed == 2

\* Most frames pushed between two clear() calls where battle mode is toggled
\* between the blocks.
BypassPushed == 4

(***************************************************************************)
(* Program constants.                                                      *)
(***************************************************************************)
\* AudioEngineType, as the JNI layer numbers it.
SOUNDTOUCH == 0
SUPERPOWERED == 1
RUBBERBAND == 2
EngineEnum == {SOUNDTOUCH, SUPERPOWERED, RUBBERBAND}
\* int maxOutputFrames = 32768;
MaxOutputFrames == 32768
\* SETTING_SEQUENCE_MS as the engine's constructor sets it.
EngineSequenceMs == 82

(***************************************************************************)
(* Arithmetic helpers.                                                     *)
(***************************************************************************)
\* std::clamp
Clamp(v, lo, hi) == IF v < lo THEN lo ELSE IF hi < v THEN hi ELSE v

Abs(x) == IF x < 0 THEN -x ELSE x

Min(a, b) == IF b < a THEN b ELSE a

Max(a, b) == IF a < b THEN b ELSE a

\* C++ integer division and float-to-integer conversion truncate toward zero.
TruncDiv(a, b) == IF a >= 0 THEN a \div b ELSE -((-a) \div b)

RECURSIVE Pow2(_)
Pow2(k) == IF k <= 0 THEN 1 ELSE 2 * Pow2(k - 1)

\* 1000 * 2^(r/12) for r in 0..11, rounded.
SemitoneStep(r) ==
    CASE r = 0 -> 1000 [] r = 1 -> 1059 [] r = 2 -> 1122 [] r = 3 -> 1189
      [] r = 4 -> 1260 [] r = 5 -> 1335 [] r = 6 -> 1414 [] r = 7 -> 1498
      [] r = 8 -> 1587 [] r = 9 -> 1682 [] r = 10 -> 1782 [] OTHER -> 1888

\* std::pow(2.0f, semitones / 12.0f), in thousandths.
PitchMultiplier(semitones) ==
    LET oct == IF semitones >= 0 THEN semitones \div 12
               ELSE -((-semitones + 11) \div 12)
        r == semitones - 12 * oct
    IN IF oct >= 0 THEN SemitoneStep(r) * Pow2(oct)
       ELSE SemitoneStep(r) \div Pow2(-oct)

\* The largest absolute value in a sequence of numbers (0 for the empty one).
RECURSIVE PeakOf(_)
PeakOf(s) == IF s = <<>> THEN 0 ELSE Max(Abs(Head(s)), PeakOf(Tail(s)))

(***************************************************************************)
(* soundtouch::SoundTouch::Impl (the in-repository reference engine).      *)
(* A state is a record                                                     *)
(*   [sampleRate, channels, tempo, pitch, rate, sequenceMs,                *)
(*    sequenceSamples, inputBuffer, outputBuffer].                         *)
(***************************************************************************)
\* void updateParameters(): sequenceMs * sampleRate is computed in 32-bit unsigned
\* arithmetic.  sampleRate is kept as the int with the same bits; for a negative
\* product p the unsigned value is 2^32 + p = 4294967 * 1000 + 296 + p.
updateParameters(s) ==
    LET p == s.sequenceMs * s.sampleRate
    IN [s EXCEPT !.sequenceSamples = IF p >= 0 THEN p \div 1000
                                     ELSE 4294967 + ((296 + p) \div 1000)]

ST_setSampleRate(s, r) == updateParameters([s EXCEPT !.sampleRate = r])

ST_setChannels(s, ch) == [s EXCEPT !.channels = ch]

\* A setTempo that scales the tempo it holds.
ST_setTempoRelative(s, t) == [s EXCEPT !.tempo = Clamp((s.tempo * t) \div 1000, 50, 10000)]

ST_setTempo(s, t) == [s EXCEPT !.tempo = Clamp(t, 50, 10000)]

ST_setPitch(s, p) == [s EXCEPT !.pitch = Clamp(p, 250, 4000)]

ST_setRate(s, r) == [s EXCEPT !.rate = Clamp(r, 50, 10000)]

\* bool setSetting(SETTING_SEQUENCE_MS, value)
ST_setSequenceMs(s, value) == updateParameters([s EXCEPT !.sequenceMs = value])

\* effectiveTempo = tempo * rate, clamped to [0.05, 10.0]; in thousandths.
EffectiveTempo(s) == Clamp((s.tempo * s.rate) \div 1000, 50, 10000)

\* One linear-interpolation resampling loop of processInternal: nOut frames are
\* read from the nIn frames of src at step `step` (thousandths).  A source of a
\* single frame makes inFrame = nIn - 2 wrap around (size_t); the value read
\* there is multiplied out by frac = 1.0, so the sample computed is s2.
Resample(src, nIn, ch, step, nOut) ==
    [i \in 1..(nOut * ch) |->
        LET outFrame == (i - 1) \div ch
            c == (i - 1) % ch
            pos == outFrame * step
            edge == (pos \div 1000) >= nIn - 1
            inFrame == IF edge THEN nIn - 2 ELSE pos \div 1000
            frac == IF edge THEN 1000 ELSE pos % 1000
            s1 == IF inFrame < 0 THEN 0 ELSE src[inFrame * ch + c + 1]
            s2 == src[(inFrame + 1) * ch + c + 1]
        IN TruncDiv(s1 * 1000 + frac * (s2 - s1), 1000)]

\* Whether a resampling loop reads src[-2 * ch ..]: its source has one frame.
ResampleReadsOutside(nIn, nOut) == nIn = 1 /\ nOut >= 1

\* std::abs(pitch - 1.0f) > 0.01f
PitchStageRuns(s) == Abs(s.pitch - 1000) > 10

\* The frames the tempo stage produces from the buffered input.
TempoFrames(s) == ((Len(s.inputBuffer) \div s.channels) * 1000) \div EffectiveTempo(s)

\* The frames the pitch stage produces from the tempo stage's frames.
PitchedFrames(s) == (TempoFrames(s) * 1000) \div s.pitch

\* Whether processInternal gets past both of its early returns.
Transforms(s) ==
    /\ s.channels # 0
    /\ (Len(s.inputBuffer) \div s.channels) >= s.sequenceSamples
    /\ TempoFrames(s) # 0

\* void processInternal()
processInternal(s) ==
    IF ~Transforms(s) THEN s
    ELSE LET inputFrames == Len(s.inputBuffer) \div s.channels
             outputFrames == TempoFrames(s)
             processed == Resample(s.inputBuffer, inputFrames, s.channels,
                                   EffectiveTempo(s), outputFrames)
             pitched == Resample(processed, outputFrames, s.channels,
                                 s.pitch, PitchedFrames(s))
             final == IF PitchStageRuns(s) THEN pitched ELSE processed
         IN [s EXCEPT !.outputBuffer = @ \o final, !.inputBuffer = <<>>]

\* The undefined behaviour one processInternal call executes.
processInternalUB(s) ==
    IF s.channels = 0 THEN "div_zero"
    ELSE IF ~Transforms(s) THEN "none"
    ELSE IF \/ ResampleReadsOutside(Len(s.inputBuffer) \div s.channels, TempoFrames(s))
            \/ /\ PitchStageRuns(s)
               /\ ResampleReadsOutside(TempoFrames(s), PitchedFrames(s))
         THEN "oob_read"
    ELSE "none"

\* void putSamples(const short* samples, unsigned int numFrames):
\* numFrames * channels samples of `samples` are appended, then processInternal.
putSamples(s, samples, numFrames) ==
    processInternal([s EXCEPT !.inputBuffer =
                        @ \o SubSeq(samples, 1, numFrames * s.channels)])

putSamplesUB(s, samples, numFrames) ==
    processInternalUB([s EXCEPT !.inputBuffer =
                          @ \o SubSeq(samples, 1, numFrames * s.channels)])

\* unsigned int receiveSamples(short* output, unsigned int maxFrames):
\* the samples handed out, the frame count returned, and the state left.
receiveAvailable(s, maxFrames) == Min(Len(s.outputBuffer), maxFrames * s.channels)

receiveSamples(s, maxFrames) ==
    LET available == receiveAvailable(s, maxFrames)
    IN [out |-> SubSeq(s.outputBuffer, 1, available),
        frames |-> available \div s.channels,
        st |-> [s EXCEPT !.outputBuffer = SubSeq(@, available + 1, Len(@))]]

\* void flush()
ST_flush(s) == IF s.inputBuffer # <<>> THEN processInternal(s) ELSE s

ST_flushUB(s) == IF s.inputBuffer # <<>> THEN processInternalUB(s) ELSE "none"

\* A clear() that empties the output buffer only.
ST_clearOutputOnly(s) == [s EXCEPT !.outputBuffer = <<>>]

\* void clear()
ST_clear(s) == [s EXCEPT !.inputBuffer = <<>>, !.outputBuffer = <<>>]

\* SoundTouch's member initialisers, then the settings of the engine's constructor.
ST_new ==
    ST_setSequenceMs(
        [sampleRate |-> 44100, channels |-> 2, tempo |-> 1000, pitch |-> 1000,
         rate |-> 1000, sequenceMs |-> 40, sequenceSamples |-> 1764,
         inputBuffer |-> <<>>, outputBuffer |-> <<>>],
        EngineSequenceMs)

(***************************************************************************)
(* BattleLimiter.  A state is a record                                     *)
(*   [enabled, channels, attackSamples, releaseSamples,                    *)
(*    attackCoeff, releaseCoeff, currentGain].                             *)
(***************************************************************************)
\* float threshold = 0.966f; float ceiling = 0.989f;  (thousandths)
LimiterThreshold == 966
LimiterCeiling == 989

\* 1.0f - std::exp(-2.2f / n) in ten-thousandths; -2.2f / 0 is -infinity.
LimiterCoeff(n) ==
    CASE n = 0 -> 10000 [] n = 1 -> 8892 [] n = 2 -> 6671 [] n = 3 -> 5197
      [] n = 4 -> 4231 [] n = 5 -> 3560 [] n = 22 -> 952 [] n = 4410 -> 5
      [] OTHER -> IF n > 0 THEN 22000 \div n ELSE -(22000 \div (-n))

\* BattleLimiter's member initialisers.
Limiter_new ==
    [enabled |-> TRUE, channels |-> 2, attackSamples |-> 22, releaseSamples |-> 4410,
     attackCoeff |-> 1000, releaseCoeff |-> 10, currentGain |-> 10000]

\* void reset()
Limiter_reset(l) ==
    [l EXCEPT !.currentGain = 10000,
              !.attackCoeff = LimiterCoeff(l.attackSamples),
              !.releaseCoeff = LimiterCoeff(l.releaseSamples)]

\* void configure(int sampleRate, int channels); attackMs = 0.5, releaseMs = 100.
Limiter_configure(l, sampleRate, channels) ==
    Limiter_reset([l EXCEPT !.channels = channels,
                            !.attackSamples = TruncDiv(sampleRate, 2000),
                            !.releaseSamples = TruncDiv(sampleRate, 10)])

\* lookaheadBuffer.resize(lookaheadSamples * channels, 0.0f), lookaheadMs = 1.5:
\* a negative int converts to a huge size_t and resize throws std::length_error.
LimiterConfigureThrows(sampleRate, channels) ==
    TruncDiv(3 * sampleRate, 2000) * channels < 0

\* The gain the limiter holds after one frame whose peak is `peak`.
LimiterNextGain(l, peak) ==
    LET targetGain == IF peak > LimiterThreshold
                      THEN (LimiterThreshold * 10000) \div peak ELSE 10000
        coeff == IF targetGain < l.currentGain THEN l.attackCoeff ELSE l.releaseCoeff
    IN l.currentGain + TruncDiv((targetGain - l.currentGain) * coeff, 10000)

\* samples[i + ch] *= gain, without the hard clip that follows.
LimiterGainOnly(x, gain) == TruncDiv(x * gain, 10000)

\* samples[i + ch] *= gain; samples[i + ch] = std::clamp(samples[i + ch], -ceiling, ceiling);
LimiterSample(x, gain) ==
    Clamp(TruncDiv(x * gain, 10000), -LimiterCeiling, LimiterCeiling)

\* void process(float* samples, int numSamples), the enabled case: the frames
\* of `samples` from frame f on, with the limiter state left behind.
RECURSIVE LimiterFrames(_, _, _)
LimiterFrames(l, samples, f) ==
    IF (f - 1) * l.channels >= Len(samples) THEN [samples |-> <<>>, limiter |-> l]
    ELSE LET frame == SubSeq(samples, (f - 1) * l.channels + 1,
                             Min(f * l.channels, Len(samples)))
             next == LimiterNextGain(l, PeakOf(frame))
             gain == Min(next, 10000)
             rest == LimiterFrames([l EXCEPT !.currentGain = next], samples, f + 1)
         IN [samples |-> [i \in 1..Len(frame) |-> LimiterSample(frame[i], gain)]
                            \o rest.samples,
             limiter |-> rest.limiter]

Limiter_process(l, samples) ==
    IF ~l.enabled THEN [samples |-> samples, limiter |-> l]
    ELSE LimiterFrames(l, samples, 1)

(***************************************************************************)
(* BattleCompressor and BattleBassBoost.  The model keeps their switches   *)
(* and whether their filter state differs from the reset state (dirty);    *)
(* the gain they apply to a block is chosen by the caller of the chain.    *)
(***************************************************************************)
Compressor_new == [enabled |-> TRUE, dirty |-> FALSE]

\* void reset(): envelope = 0, currentGain = 1.
Compressor_reset(c) == [c EXCEPT !.dirty = FALSE]

Compressor_setEnabled(c, enabled) == [c EXCEPT !.enabled = enabled]

\* void process(float*, int): the envelope moves off 0 on a non-silent block.
Compressor_process(c, samples) ==
    IF c.enabled /\ PeakOf(samples) > 0 THEN [c EXCEPT !.dirty = TRUE] ELSE c

\* float gainDb = 6.0f; std::vector<float> filterStates (empty until configure).
BassBoost_new == [gainDb |-> 6, channels |-> 2, filterStates |-> 0, dirty |-> FALSE]

\* A reset() that also puts the gain back to its initial 6 dB.
BassBoost_resetGain(b) == [b EXCEPT !.dirty = FALSE, !.gainDb = 6]

BassBoost_reset(b) == [b EXCEPT !.dirty = FALSE]

BassBoost_configure(b, channels) ==
    BassBoost_reset([b EXCEPT !.channels = channels, !.filterStates = channels * 2])

BassBoost_setGain(b, gainDb) == [b EXCEPT !.gainDb = Clamp(gainDb, 0, 24)]

\* if (!enabled || gainDb <= 0) return;
BassBoost_runs(b) == b.gainDb > 0

BassBoost_process(b, samples) ==
    IF BassBoost_runs(b) /\ PeakOf(samples) > 0 THEN [b EXCEPT !.dirty = TRUE] ELSE b

\* filterStates[stateIdx + 1] is indexed without a size check.
BassBoost_writesOutside(b, samples) ==
    BassBoost_runs(b) /\ samples # <<>> /\ b.filterStates < b.channels * 2

(***************************************************************************)
(* SubHarmonicSynthesizer and BassExciter (left and right instances).      *)
(***************************************************************************)
\* float amount = 0.3f (SubHarmonicSynthesizer); float amount = 0.5f (BassExciter).
Psycho_new == [subAmount |-> 30, excAmount |-> 50, dirty |-> FALSE]

Psycho_reset(p) == [p EXCEPT !.dirty = FALSE]

Psycho_configure(p) == [p EXCEPT !.dirty = FALSE]

Psycho_process(p, runs, samples) ==
    IF runs /\ PeakOf(samples) > 0 THEN [p EXCEPT !.dirty = TRUE] ELSE p

(***************************************************************************)
(* The optional backends.  Superpowered::TimeStretching and RubberBand's   *)
(* stretcher are external libraries: the model keeps the parameters the    *)
(* engine hands them and how many frames they hold.                        *)
(***************************************************************************)
NoTimeStretcher == [present |-> FALSE, rate |-> 0, pitchShiftCents |-> 0, buffered |-> 0]

\* new Superpowered::TimeStretching(...); rate = 1.0f; pitchShiftCents = 0;
TimeStretcher_new == [present |-> TRUE, rate |-> 1000, pitchShiftCents |-> 0, buffered |-> 0]

NoRubberband == [present |-> FALSE, timeRatio |-> 0, pitchScale |-> 0, buffered |-> 0]

Rubberband_new == [present |-> TRUE, timeRatio |-> 1000, pitchScale |-> 1000, buffered |-> 0]

NoSpEffects == [present |-> FALSE, compressor |-> FALSE, limiter |-> FALSE, eq |-> FALSE]

\* spCompressor->enabled = true; spLimiter->enabled = true; spEQ->enabled = true;
SpEffects_new == [present |-> TRUE, compressor |-> TRUE, limiter |-> TRUE, eq |-> TRUE]

(***************************************************************************)
(* BattleAudioEngineImpl.                                                  *)
(***************************************************************************)
\* The member initialisers and the constructor.  HAS_SUPERPOWERED_LICENSE and
\* USE_RUBBERBAND are fixed per build: sp and rbOn range over the builds.
Engine_new(sp, rbOn) ==
    [superpoweredAvailable |-> sp, rubberbandAvailable |-> rbOn,
     currentEngine |-> SOUNDTOUCH,
     sampleRate |-> 44100, channels |-> 2,
     speed |-> 1000, pitchSemitones |-> 0, rate |-> 1000, useRateMode |-> FALSE,
     battleMode |-> FALSE, limiterEnabled |-> TRUE, audiophileMode |-> FALSE,
     subHarmonicAmount |-> 0, exciterAmount |-> 0, bassBoostAmount |-> 0,
     hardwareProtection |-> TRUE, hardLimiterCeiling |-> 944,
     subBassFilterEnabled |-> TRUE, dcBlockerEnabled |-> TRUE,
     clarityEnhanceEnabled |-> FALSE, clarityAmount |-> 0, ditheringEnabled |-> FALSE]

\* static_cast<int>(pitchSemitones * 100.0f), clamped to [-2400, 2400].
PitchCents(e) == Clamp(e.pitchSemitones * 100, -2400, 2400)

\* void updateSoundTouch(): the part that sets the SoundTouch object.
updateSoundTouch(e, s) ==
    IF e.useRateMode
    THEN ST_setPitch(ST_setTempo(ST_setRate(s, e.rate), 1000), 1000)
    ELSE ST_setPitch(ST_setTempo(ST_setRate(s, 1000), e.speed),
                     PitchMultiplier(e.pitchSemitones))

\* void updateSoundTouch(): "Also update Superpowered if available".
updateTimeStretcher(e, t) ==
    IF ~t.present THEN t
    ELSE [t EXCEPT !.rate = Clamp(e.speed, 250, 4000), !.pitchShiftCents = PitchCents(e)]

\* void updateSoundTouch(): "Also update Rubberband if available".
updateRubberband(e, r) ==
    IF ~r.present THEN r
    ELSE [r EXCEPT !.timeRatio = 1000000 \div e.speed,
                   !.pitchScale = PitchMultiplier(e.pitchSemitones)]

\* A fallback that keeps the request whatever is available.
FallbackNone(e, engine) == engine

\* void setAudioEngine(AudioEngineType engine): the smart fallback chain.
FallbackEngine(e, engine) ==
    LET first == IF engine = SUPERPOWERED /\ ~e.superpoweredAvailable
                 THEN IF e.rubberbandAvailable THEN RUBBERBAND ELSE SOUNDTOUCH
                 ELSE engine
    IN IF first = RUBBERBAND /\ ~e.rubberbandAvailable
       THEN IF e.superpoweredAvailable THEN SUPERPOWERED ELSE SOUNDTOUCH
       ELSE first

\* The switch after clear(): without USE_RUBBERBAND, case RUBBERBAND resets
\* currentEngine to SOUNDTOUCH.
EngineAfterSwitch(e, engine) ==
    IF engine = RUBBERBAND /\ ~e.rubberbandAvailable THEN SOUNDTOUCH ELSE engine

\* The processing routine process() routes to.
SoundTouchRoute == "processSoundTouch"
SuperpoweredRoute == "processSuperpowered"
RubberbandRoute == "processRubberband"

Route(e, t, r) ==
    IF e.currentEngine = SUPERPOWERED
    THEN IF t.present THEN SuperpoweredRoute ELSE SoundTouchRoute
    ELSE IF e.currentEngine = RUBBERBAND /\ e.rubberbandAvailable
    THEN IF r.present THEN RubberbandRoute ELSE SoundTouchRoute
    ELSE SoundTouchRoute

\* floatOutputBuffer[i] = shortOutputBuffer[i] / 32768.0f   (thousandths)
ToFloat(s) == TruncDiv(s * 1000, 32768)

\* A conversion that first clips to the stored hard ceiling.
ToShortProtected(x) ==
    Clamp(TruncDiv(Clamp(x, -eng.hardLimiterCeiling, eng.hardLimiterCeiling) * 32767, 1000),
          -32768, 32767)

\* static_cast<short>(std::clamp(x * 32767.0f, -32768.0f, 32767.0f))
ToShort(x) == Clamp(TruncDiv(x * 32767, 1000), -32768, 32767)

(***************************************************************************)
(* The processing routines.  Each yields the record                        *)
(*   [st, ts, rb, limiter, compressor, bassBoost, psycho,                  *)
(*    output, produced, limited, ub]                                       *)
(* of the objects it leaves, the samples it stores to output[0..], the     *)
(* count it stores to *outputSamples, whether its limiter stage ran over   *)
(* the block, and the undefined behaviour it runs.                         *)
(***************************************************************************)
Untouched(out, produced, u) ==
    [st |-> st, ts |-> ts, rb |-> rb, limiter |-> limiter, compressor |-> compressor,
     bassBoost |-> bassBoost, psycho |-> psycho,
     output |-> out, produced |-> produced, limited |-> FALSE, ub |-> u]

ApplyGain(samples, g) == [i \in 1..Len(samples) |-> TruncDiv(samples[i] * g, 1000)]

\* Whether a stage ahead of the limiter changes the samples.
BassStageRuns == eng.bassBoostAmount > 0 /\ BassBoost_runs(bassBoost)
PsychoStageRuns == eng.subHarmonicAmount > 0 \/ eng.exciterAmount > 0
UpstreamRuns == BassStageRuns \/ PsychoStageRuns \/ compressor.enabled

\* The battle chain once the stages ahead of the limiter (up) and the limiter
\* (lim) have run over the block `floats`; ran is whether BattleLimiter::process
\* was called and got past its `if (!enabled) return;`.
BattleChainOf(floats, up, lim, ran) ==
    [samples |-> lim.samples,
     limiter |-> lim.limiter,
     limited |-> ran,
     compressor |-> Compressor_process(compressor, up),
     bassBoost |-> IF eng.bassBoostAmount > 0
                   THEN BassBoost_process(bassBoost, floats) ELSE bassBoost,
     psycho |-> Psycho_process(psycho, PsychoStageRuns, floats),
     ub |-> IF eng.bassBoostAmount > 0 /\ BassBoost_writesOutside(bassBoost, floats)
            THEN "oob_write" ELSE "none"]

LimiterStage(up, limiterGate) ==
    IF limiterGate THEN Limiter_process(limiter, up)
    ELSE [samples |-> up, limiter |-> limiter]

\* Bass boost, sub-harmonic, exciter, compressor and limiter over one block of
\* float samples; g is the gain the stages ahead of the limiter apply to it.
BattleChain(floats, g, limiterGate) ==
    BattleChainOf(floats, IF UpstreamRuns THEN ApplyGain(floats, g) ELSE floats,
                  LimiterStage(IF UpstreamRuns THEN ApplyGain(floats, g) ELSE floats,
                               limiterGate),
                  limiterGate /\ limiter.enabled)

ToFloats(shorts) == [i \in 1..Len(shorts) |-> ToFloat(shorts[i])]

ToShorts(floats) == [i \in 1..Len(floats) |-> ToShort(floats[i])]

\* The end of a processing routine in battle mode: the chain's objects, and
\* the chain's samples converted back to short.
BattleOutput(base, chain) ==
    [base EXCEPT !.limiter = chain.limiter, !.compressor = chain.compressor,
                 !.bassBoost = chain.bassBoost, !.psycho = chain.psycho,
                 !.output = ToShorts(chain.samples),
                 !.produced = Len(chain.samples),
                 !.limited = chain.limited,
                 !.ub = IF base.ub # "none" THEN base.ub ELSE chain.ub]

\* A processSoundTouch that runs the battle chain whether battle mode is on or
\* not.
SoundTouchReceivedChained(rcv, ub1, g) ==
    IF rcv.frames <= 0
    THEN [Untouched(<<>>, 0, ub1) EXCEPT !.st = rcv.st]
    ELSE BattleOutput([Untouched(<<>>, 0, ub1) EXCEPT !.st = rcv.st],
                      BattleChain(ToFloats(SubSeq(rcv.out, 1, rcv.frames * eng.channels)),
                                  g, TRUE))

\* processSoundTouch from receiveSamples' return on: rcv is what it returned,
\* ub1 the undefined behaviour of putSamples.
SoundTouchReceived(rcv, ub1, g) ==
    IF rcv.frames <= 0
    THEN [Untouched(<<>>, 0, ub1) EXCEPT !.st = rcv.st]
    ELSE IF eng.battleMode
    THEN BattleOutput([Untouched(<<>>, 0, ub1) EXCEPT !.st = rcv.st],
                      BattleChain(ToFloats(SubSeq(rcv.out, 1, rcv.frames * eng.channels)),
                                  g, TRUE))
    ELSE [Untouched(SubSeq(rcv.out, 1, rcv.frames * eng.channels),
                    rcv.frames * eng.channels, ub1) EXCEPT !.st = rcv.st]

\* void processSoundTouch(const short* input, int numSamples, short* output, int* outputSamples)
processSoundTouch(input, numSamples, g) ==
    SoundTouchReceived(
        receiveSamples(putSamples(st, input, TruncDiv(numSamples, eng.channels)),
                       MaxOutputFrames),
        putSamplesUB(st, input, TruncDiv(numSamples, eng.channels)), g)

\* void processSuperpowered(...) with a timeStretcher: it is handed the
\* unclamped speed, and hands back r frames of the sample value v.  Of the
\* Superpowered effects the model keeps whether the limiter is run:
\* if (spLimiter && limiterEnabled) spLimiter->process(...), in battle mode.
processSuperpowered(input, numSamples, r, v) ==
    IF r <= 0
    THEN [Untouched(<<>>, 0, "none")
            EXCEPT !.ts = [ts EXCEPT !.rate = eng.speed,
                                     !.pitchShiftCents = PitchCents(eng),
                                     !.buffered = @ + TruncDiv(numSamples, eng.channels)]]
    ELSE [Untouched([i \in 1..(r * eng.channels) |-> ToShort(v)], r * eng.channels, "none")
            EXCEPT !.ts = [ts EXCEPT !.rate = eng.speed,
                                     !.pitchShiftCents = PitchCents(eng),
                                     !.buffered = 0],
                   !.limited = eng.battleMode /\ spfx.present /\ eng.limiterEnabled,
                   !.psycho = IF eng.battleMode
                              THEN Psycho_process(psycho, PsychoStageRuns, <<v>>)
                              ELSE psycho]

\* void processRubberband(...) with a rubberbandStretcher (USE_RUBBERBAND).
processRubberband(input, numSamples, g, r, v) ==
    IF r <= 0
    THEN [Untouched(<<>>, 0, "none")
            EXCEPT !.rb = [updateRubberband(eng, rb)
                             EXCEPT !.buffered = @ + TruncDiv(numSamples, eng.channels)]]
    ELSE IF eng.battleMode
    THEN BattleOutput([Untouched(<<>>, 0, "none")
                         EXCEPT !.rb = [updateRubberband(eng, rb) EXCEPT !.buffered = 0]],
                      BattleChain([i \in 1..(r * eng.channels) |-> v], g,
                                  eng.limiterEnabled))
    ELSE [Untouched([i \in 1..(r * eng.channels) |-> ToShort(v)], r * eng.channels, "none")
            EXCEPT !.rb = [updateRubberband(eng, rb) EXCEPT !.buffered = 0]]

\* void process(...): the routing switch, with the routines' own fallbacks to
\* processSoundTouch when their stretcher is missing.
RoutedProcess(route, input, numSamples, g, r, v) ==
    IF route = SuperpoweredRoute THEN processSuperpowered(input, numSamples, r, v)
    ELSE IF route = RubberbandRoute THEN processRubberband(input, numSamples, g, r, v)
    ELSE processSoundTouch(input, numSamples, g)

(***************************************************************************)
(* History kept for the properties.                                        *)
(***************************************************************************)
\* What configure finds: the configuration, the backend settings derived from it
\* and the filter state.
ConfigSnapshot ==
    [taken |-> TRUE, eng |-> eng, st |-> st, ts |-> ts, rb |-> rb, spfx |-> spfx,
     limiter |-> limiter, compressor |-> compressor, bassBoost |-> bassBoost,
     psycho |-> psycho]

\* What flush finds in the SoundTouch object.
FlushSnapshot == [taken |-> TRUE, st |-> st]

NoSnapshot == [taken |-> FALSE]

\* What setAudiophileMode(true) finds when audiophile mode is off: the switches
\* and amounts it is about to overwrite.
ModeSnapshot ==
    [taken |-> TRUE, battleMode |-> eng.battleMode,
     compressorEnabled |-> compressor.enabled,
     exciterAmount |-> eng.exciterAmount,
     subHarmonicAmount |-> eng.subHarmonicAmount]

\* The snapshot a setAudiophileMode(enabled) call records: on entering, what it
\* finds; on leaving right after entering, what the entering call found.
AudiophileSnapshot(enabled) ==
    IF enabled
    THEN IF eng.audiophileMode THEN NoSnapshot ELSE ModeSnapshot
    ELSE IF lastOp.op = "setAudiophileMode" /\ lastOp.on THEN lastOp.pre
    ELSE NoSnapshot

\* What a call finds when it repeats the call before it (same operation, same
\* argument): the state the first of the two calls left.
RepeatSnapshot(op, a) ==
    IF lastOp.op = op /\ lastOp.a = a THEN ConfigSnapshot ELSE NoSnapshot

Call(op, a, b, on, pre) == [op |-> op, a |-> a, b |-> b, on |-> on, pre |-> pre]

NoResult ==
    [produced |-> 0, output |-> <<>>, capacity |-> 0, route |-> "none", limited |-> FALSE]

NoHistory == [pushed |-> 0, emitted |-> 0]

(***************************************************************************)
(* The state after battle_engine_create(), for each build of the library.  *)
(***************************************************************************)
Init ==
    \E sp \in BOOLEAN, rbOn \in BOOLEAN :
        /\ eng = Engine_new(sp, rbOn)
        /\ st = ST_new
        /\ ts = IF sp THEN TimeStretcher_new ELSE NoTimeStretcher
        /\ spfx = IF sp THEN SpEffects_new ELSE NoSpEffects
        /\ rb = IF rbOn THEN Rubberband_new ELSE NoRubberband
        /\ limiter = Limiter_new
        /\ compressor = Compressor_new
        /\ bassBoost = BassBoost_new
        /\ psycho = Psycho_new
        /\ result = NoResult
        /\ hist = NoHistory
        /\ lastOp = Call("create", 0, 0, FALSE, NoSnapshot)
        /\ ub = "none"
        /\ crashed = FALSE

(***************************************************************************)
(* clear() and the calls built on it.                                      *)
(***************************************************************************)
TimeStretcher_reset(t) == IF t.present THEN [t EXCEPT !.buffered = 0] ELSE t

Rubberband_reset(r) == IF r.present THEN [r EXCEPT !.buffered = 0] ELSE r

\* void clear(): the primed objects it leaves.
ClearObjects(r) ==
    /\ st' = ST_clear(st)
    /\ ts' = TimeStretcher_reset(ts)
    /\ rb' = r
    /\ limiter' = Limiter_reset(limiter)
    /\ compressor' = Compressor_reset(compressor)
    /\ bassBoost' = BassBoost_reset(bassBoost)
    /\ psycho' = Psycho_reset(psycho)
    /\ hist' = NoHistory

\* Whether a backend holds buffered audio or a chain filter is off its reset
\* state.
HoldsAudioOrState ==
    \/ st.inputBuffer # <<>> \/ st.outputBuffer # <<>>
    \/ ts.buffered > 0 \/ rb.buffered > 0
    \/ limiter.currentGain # 10000
    \/ compressor.dirty \/ bassBoost.dirty \/ psycho.dirty

\* What clear() and setAudioEngine find: the active engine and whether anything is held.
SwitchSnapshot ==
    [taken |-> TRUE, engine |-> eng.currentEngine, held |-> HoldsAudioOrState]

\* battle_engine_clear
Clear ==
    /\ ~crashed
    /\ ClearObjects(Rubberband_reset(rb))
    /\ lastOp' = Call("clear", 0, 0, FALSE, SwitchSnapshot)
    /\ UNCHANGED <<eng, spfx, result, ub, crashed>>

\* battle_engine_set_audio_engine(handle, engineType): static_cast to
\* AudioEngineType, then setAudioEngine.
SetAudioEngine(engineType) ==
    /\ ~crashed
    /\ lastOp' = Call("setAudioEngine", engineType, 0, FALSE, SwitchSnapshot)
    /\ IF engineType = eng.currentEngine
       THEN UNCHANGED <<eng, st, ts, rb, limiter, compressor, bassBoost, psycho, hist>>
       ELSE LET engine == FallbackEngine(eng, engineType)
            IN /\ eng' = [eng EXCEPT !.currentEngine = EngineAfterSwitch(eng, engine)]
               /\ ClearObjects(IF engine = RUBBERBAND
                               THEN updateRubberband(eng, Rubberband_reset(rb))
                               ELSE Rubberband_reset(rb))
    /\ UNCHANGED <<spfx, result, ub, crashed>>

\* battle_engine_get_audio_engine
getAudioEngine == eng.currentEngine

\* battle_engine_flush: flush() reaches the SoundTouch object only.
Flush ==
    /\ ~crashed
    /\ st' = ST_flush(st)
    /\ lastOp' = Call("flush", 0, 0, FALSE, FlushSnapshot)
    /\ \E abort \in BOOLEAN :
        /\ ST_flushUB(st) = "none" => ~abort
        /\ crashed' = abort
    /\ ub' = IF ST_flushUB(st) # "none" THEN ST_flushUB(st) ELSE ub
    /\ UNCHANGED <<eng, ts, rb, spfx, limiter, compressor, bassBoost, psycho, result, hist>>

(***************************************************************************)
(* The parameter setters.                                                  *)
(***************************************************************************)
\* updateSoundTouch() as a step: the three stretchers follow eng'.
UpdateStretchers ==
    /\ st' = updateSoundTouch(eng', st)
    /\ ts' = updateTimeStretcher(eng', ts)
    /\ rb' = updateRubberband(eng', rb)

\* A setSpeed that also returns to independent speed/pitch mode.
SetSpeedIndependent(newSpeed) ==
    /\ ~crashed
    /\ eng' = [eng EXCEPT !.speed = Clamp(newSpeed, 50, 10000), !.useRateMode = FALSE]
    /\ UpdateStretchers
    /\ lastOp' = Call("setSpeed", newSpeed, 0, FALSE, NoSnapshot)
    /\ UNCHANGED <<spfx, limiter, compressor, bassBoost, psycho, result, hist, ub, crashed>>

\* battle_engine_set_speed
SetSpeed(newSpeed) ==
    /\ ~crashed
    /\ eng' = [eng EXCEPT !.speed = Clamp(newSpeed, 50, 10000)]
    /\ UpdateStretchers
    /\ lastOp' = Call("setSpeed", newSpeed, 0, FALSE, RepeatSnapshot("setSpeed", newSpeed))
    /\ UNCHANGED <<spfx, limiter, compressor, bassBoost, psycho, result, hist, ub, crashed>>

\* A setPitch that stores its argument as given.
SetPitchUnclamped(semitones) ==
    /\ ~crashed
    /\ eng' = [eng EXCEPT !.pitchSemitones = semitones]
    /\ UpdateStretchers
    /\ lastOp' = Call("setPitch", semitones, 0, FALSE, NoSnapshot)
    /\ UNCHANGED <<spfx, limiter, compressor, bassBoost, psycho, result, hist, ub, crashed>>

\* battle_engine_set_pitch
SetPitch(semitones) ==
    /\ ~crashed
    /\ eng' = [eng EXCEPT !.pitchSemitones = Clamp(semitones, -36, 36)]
    /\ UpdateStretchers
    /\ lastOp' = Call("setPitch", semitones, 0, FALSE, NoSnapshot)
    /\ UNCHANGED <<spfx, limiter, compressor, bassBoost, psycho, result, hist, ub, crashed>>

\* battle_engine_set_rate
SetRate(newRate) ==
    /\ ~crashed
    /\ eng' = [eng EXCEPT !.rate = Clamp(newRate, 50, 10000), !.useRateMode = TRUE]
    /\ UpdateStretchers
    /\ lastOp' = Call("setRate", newRate, 0, FALSE, NoSnapshot)
    /\ UNCHANGED <<spfx, limiter, compressor, bassBoost, psycho, result, hist, ub, crashed>>

\* if (spCompressor) spCompressor->enabled = on;
SpCompressorEnabled(fx, on) == IF fx.present THEN [fx EXCEPT !.compressor = on] ELSE fx

\* if (spLimiter) spLimiter->enabled = on;
SpLimiterEnabled(fx, on) == IF fx.present THEN [fx EXCEPT !.limiter = on] ELSE fx

\* if (spEQ) spEQ->enabled = on;
SpEqEnabled(fx, on) == IF fx.present THEN [fx EXCEPT !.eq = on] ELSE fx

\* A setBattleMode that switches the limiter with battle mode alone.
SetBattleModeLimiterOn(enabled) ==
    /\ ~crashed
    /\ eng' = [eng EXCEPT !.battleMode = enabled]
    /\ limiter' = [limiter EXCEPT !.enabled = enabled]
    /\ compressor' = Compressor_setEnabled(compressor, enabled)
    /\ spfx' = SpLimiterEnabled(SpCompressorEnabled(spfx, enabled), enabled)
    /\ lastOp' = Call("setBattleMode", 0, 0, enabled, NoSnapshot)
    /\ UNCHANGED <<st, ts, rb, bassBoost, psycho, result, hist, ub, crashed>>

\* battle_engine_set_battle_mode
SetBattleMode(enabled) ==
    /\ ~crashed
    /\ eng' = [eng EXCEPT !.battleMode = enabled]
    /\ limiter' = [limiter EXCEPT !.enabled = enabled /\ eng.limiterEnabled]
    /\ compressor' = Compressor_setEnabled(compressor, enabled)
    /\ spfx' = SpLimiterEnabled(SpCompressorEnabled(spfx, enabled),
                                enabled /\ eng.limiterEnabled)
    /\ lastOp' = Call("setBattleMode", 0, 0, enabled, NoSnapshot)
    /\ UNCHANGED <<st, ts, rb, bassBoost, psycho, result, hist, ub, crashed>>

\* battle_engine_set_limiter_enabled
SetLimiterEnabled(enabled) ==
    /\ ~crashed
    /\ eng' = [eng EXCEPT !.limiterEnabled = enabled]
    /\ limiter' = [limiter EXCEPT !.enabled = enabled]
    /\ spfx' = SpLimiterEnabled(spfx, enabled)
    /\ lastOp' = Call("setLimiterEnabled", 0, 0, enabled, NoSnapshot)
    /\ UNCHANGED <<st, ts, rb, compressor, bassBoost, psycho, result, hist, ub, crashed>>

\* void setHardwareProtection(bool enabled); pre is what the call is recorded
\* to have found.
SetHardwareProtectionCall(enabled, pre) ==
    /\ ~crashed
    /\ eng' = [eng EXCEPT !.hardwareProtection = enabled,
                          !.hardLimiterCeiling = IF enabled THEN 944 ELSE 1000,
                          !.subBassFilterEnabled = enabled,
                          !.dcBlockerEnabled = enabled]
    /\ lastOp' = Call("setHardwareProtection", 0, 0, enabled, pre)
    /\ UNCHANGED <<st, ts, rb, spfx, limiter, compressor, bassBoost, psycho,
                   result, hist, ub, crashed>>

\* battle_engine_set_hardware_protection
SetHardwareProtection(enabled) == SetHardwareProtectionCall(enabled, NoSnapshot)

\* battle_engine_set_audiophile_mode
SetAudiophileMode(enabled) ==
    /\ ~crashed
    /\ IF enabled
       THEN /\ eng' = [eng EXCEPT !.audiophileMode = TRUE,
                                  !.subHarmonicAmount = 0, !.exciterAmount = 0,
                                  !.clarityEnhanceEnabled = TRUE, !.clarityAmount = 20,
                                  !.ditheringEnabled = TRUE]
            /\ compressor' = Compressor_setEnabled(compressor, FALSE)
            /\ spfx' = SpCompressorEnabled(spfx, FALSE)
            /\ psycho' = [psycho EXCEPT !.subAmount = 0, !.excAmount = 0]
       ELSE /\ eng' = [eng EXCEPT !.audiophileMode = FALSE,
                                  !.clarityEnhanceEnabled = FALSE,
                                  !.ditheringEnabled = FALSE]
            /\ compressor' = Compressor_setEnabled(compressor, eng.battleMode)
            /\ spfx' = SpCompressorEnabled(spfx, eng.battleMode)
            /\ psycho' = psycho
    /\ lastOp' = Call("setAudiophileMode", 0, 0, enabled, AudiophileSnapshot(enabled))
    /\ UNCHANGED <<st, ts, rb, limiter, bassBoost, result, hist, ub, crashed>>

\* battle_engine_set_bass_boost (whole dB)
SetBassBoost(amount) ==
    /\ ~crashed
    /\ eng' = [eng EXCEPT !.bassBoostAmount = Clamp(amount, 0, 24)]
    /\ bassBoost' = BassBoost_setGain(bassBoost, Clamp(amount, 0, 24))
    /\ spfx' = SpEqEnabled(spfx, Clamp(amount, 0, 24) > 0)
    /\ lastOp' = Call("setBassBoost", amount, 0, FALSE, NoSnapshot)
    /\ UNCHANGED <<st, ts, rb, limiter, compressor, psycho, result, hist, ub, crashed>>

\* battle_engine_set_sub_harmonic (hundredths)
SetSubHarmonicAmount(amount) ==
    /\ ~crashed
    /\ eng' = [eng EXCEPT !.subHarmonicAmount = Clamp(amount, 0, 100)]
    /\ psycho' = [psycho EXCEPT !.subAmount = Clamp(amount, 0, 100)]
    /\ lastOp' = Call("setSubHarmonicAmount", amount, 0, FALSE, NoSnapshot)
    /\ UNCHANGED <<st, ts, rb, spfx, limiter, compressor, bassBoost,
                   result, hist, ub, crashed>>

\* battle_engine_set_exciter (hundredths)
SetExciterAmount(amount) ==
    /\ ~crashed
    /\ eng' = [eng EXCEPT !.exciterAmount = Clamp(amount, 0, 100)]
    /\ psycho' = [psycho EXCEPT !.excAmount = Clamp(amount, 0, 100)]
    /\ lastOp' = Call("setExciterAmount", amount, 0, FALSE, NoSnapshot)
    /\ UNCHANGED <<st, ts, rb, spfx, limiter, compressor, bassBoost,
                   result, hist, ub, crashed>>

(***************************************************************************)
(* configure and process.                                                  *)
(***************************************************************************)
\* A std::vector::resize with a negative int argument throws std::length_error:
\* lookaheadBuffer in BattleLimiter::configure, filterStates in
\* BattleBassBoost::configure, floatInputBuffer in configure itself.
ConfigureThrows(sampleRate, channels) ==
    LimiterConfigureThrows(sampleRate, channels) \/ channels < 0

\* battle_engine_configure(handle, sampleRate, channels)
Configure(sampleRate, channels) ==
    /\ ~crashed
    /\ lastOp' = Call("configure", sampleRate, channels, FALSE, ConfigSnapshot)
    /\ eng' = [eng EXCEPT !.sampleRate = sampleRate, !.channels = channels]
    /\ ts' = updateTimeStretcher(eng', IF eng.superpoweredAvailable
                                       THEN TimeStretcher_new ELSE ts)
    /\ spfx' = IF eng.superpoweredAvailable /\ spfx.present
               THEN [present |-> TRUE, compressor |-> eng.battleMode,
                     limiter |-> eng.limiterEnabled, eq |-> eng.bassBoostAmount > 0]
               ELSE spfx
    /\ st' = updateSoundTouch(eng', ST_setChannels(ST_setSampleRate(st, sampleRate), channels))
    /\ IF ConfigureThrows(sampleRate, channels)
       THEN /\ crashed' = TRUE
            /\ UNCHANGED <<rb, limiter, compressor, bassBoost, psycho>>
       ELSE /\ crashed' = FALSE
            /\ limiter' = Limiter_configure(limiter, sampleRate, channels)
            /\ compressor' = Compressor_reset(compressor)
            /\ bassBoost' = BassBoost_configure(bassBoost, channels)
            /\ rb' = IF eng.rubberbandAvailable
                     THEN updateRubberband(eng', Rubberband_new) ELSE rb
            /\ psycho' = Psycho_configure(psycho)
    /\ UNCHANGED <<result, hist, ub>>

\* What the choices of a process call may be: the reference engine makes none;
\* an external stretcher hands back nothing or all the frames it holds.
ValidChoices(numSamples, g, r, v) ==
    LET route == Route(eng, ts, rb)
        numFrames == TruncDiv(numSamples, eng.channels)
    IN /\ route = SoundTouchRoute => r = 0 /\ v = 0
       /\ route = SuperpoweredRoute => r \in {0, ts.buffered + numFrames} /\ g = 1000
       /\ route = RubberbandRoute => r \in {0, rb.buffered + numFrames}
       /\ r = 0 => v = 0
       /\ ~(eng.battleMode /\ UpstreamRuns) => g = 1000

\* battle_engine_process(handle, input, numSamples, output, outputSamples): the
\* output array has room for `capacity` samples.  With nullInput the input
\* pointer is null, every read of input[i] is undefined behaviour and x stands
\* for whatever such a read yields; otherwise input holds numSamples copies of
\* x.  g, r and v are the choices of the processing routines; abort is whether
\* undefined behaviour, if the call runs into any, ends the process.
ProcessCall(x, numSamples, capacity, g, r, v, abort, nullInput) ==
    /\ ~crashed
    /\ lastOp' = Call("process", numSamples, capacity, nullInput,
                      IF nullInput \/ numSamples <= 0 THEN ConfigSnapshot ELSE NoSnapshot)
    /\ IF numSamples <= 0
       THEN /\ ~abort
            /\ result' = [NoResult EXCEPT !.capacity = capacity]
            /\ UNCHANGED <<st, ts, rb, limiter, compressor, bassBoost, psycho,
                           hist, ub, crashed>>
       ELSE IF eng.channels = 0
       THEN /\ result' = [NoResult EXCEPT !.capacity = capacity]
            /\ ub' = "div_zero"
            /\ crashed' = abort
            /\ UNCHANGED <<st, ts, rb, limiter, compressor, bassBoost, psycho, hist>>
       ELSE \E path \in {RoutedProcess(Route(eng, ts, rb), [i \in 1..numSamples |-> x],
                                       numSamples, g, r, v)} :
            \E u \in {IF nullInput THEN "null_read"
                      ELSE IF path.ub # "none" THEN path.ub
                      ELSE IF path.produced > capacity THEN "oob_write" ELSE "none"} :
               /\ ValidChoices(numSamples, g, r, v)
               /\ u = "none" => ~abort
               /\ st' = path.st
               /\ ts' = path.ts
               /\ rb' = path.rb
               /\ limiter' = path.limiter
               /\ compressor' = path.compressor
               /\ bassBoost' = path.bassBoost
               /\ psycho' = path.psycho
               /\ result' = [produced |-> path.produced, output |-> path.output,
                             capacity |-> capacity, route |-> Route(eng, ts, rb),
                             limited |-> path.limited]
               /\ hist' = [pushed |-> hist.pushed + TruncDiv(numSamples, eng.channels),
                           emitted |-> hist.emitted + TruncDiv(path.produced, eng.channels)]
               /\ ub' = IF u # "none" THEN u ELSE ub
               /\ crashed' = abort
    /\ UNCHANGED <<eng, spfx>>

\* nativeProcess(handle, inputArray, numSamples, outputArray): the input
\* pointer comes from GetShortArrayElements and is checked against null.
Process(x, numSamples, capacity, g, r, v, abort) ==
    ProcessCall(x, numSamples, capacity, g, r, v, abort, FALSE)

(***************************************************************************)
(* Backend selection and the logical parameters.                           *)
(***************************************************************************)
EngineIds == SOUNDTOUCH..MaxEngineId

\* Speeds below, inside and above the licensed backend's range (thousandths).
SpeedInputs == {100, 1000, 10000}

\* Semitones inside and beyond the two octaves the backends accept.
PitchInputs == {0, 36}

\* A sample rate that makes the sequence window two frames long.
SmallRate == 25

\* Blocks of up to one stereo frame, at most BackendPushed frames between clears.
ProcessBackend ==
    \E numSamples \in {0, 2}, r \in 0..BackendPushed, v \in {0, 500}, abort \in BOOLEAN :
        /\ hist.pushed < BackendPushed
        /\ Process(1000, numSamples, MaxCapacity, 1000, r, v, abort)

Next ==
    \/ \E engineType \in EngineIds : SetAudioEngine(engineType)
    \/ \E newSpeed \in SpeedInputs : SetSpeed(newSpeed)
    \/ \E semitones \in PitchInputs : SetPitch(semitones)
    \/ Configure(SmallRate, 1)
    \/ ProcessBackend
    \/ Clear

Spec == Init /\ [][Next]_vars

(***************************************************************************)
(* Properties of backend selection.                                        *)
(***************************************************************************)
\* Whether this build can run `engine`; the reference engine always can.
Available(e, engine) ==
    \/ engine = SOUNDTOUCH
    \/ engine = SUPERPOWERED /\ e.superpoweredAvailable
    \/ engine = RUBBERBAND /\ e.rubberbandAvailable

\* C1: in every build, a setAudioEngine request for a backend of the enumeration
\* leaves an available backend active: the requested one if it is available;
\* for an unavailable Superpowered request Rubberband if available, else
\* SoundTouch; for an unavailable Rubberband request Superpowered if available,
\* else SoundTouch.  And whenever the active backend is one of the enumeration,
\* it is available.
ActiveBackendAvailable ==
    /\ eng.currentEngine \in EngineEnum => Available(eng, eng.currentEngine)
    /\ (lastOp.op = "setAudioEngine" /\ lastOp.a \in EngineEnum) =>
          /\ Available(eng, eng.currentEngine)
          /\ Available(eng, lastOp.a) => eng.currentEngine = lastOp.a
          /\ (lastOp.a = SUPERPOWERED /\ ~eng.superpoweredAvailable) =>
                eng.currentEngine = IF eng.rubberbandAvailable THEN RUBBERBAND
                                    ELSE SOUNDTOUCH
          /\ (lastOp.a = RUBBERBAND /\ ~eng.rubberbandAvailable) =>
                eng.currentEngine = IF eng.superpoweredAvailable THEN SUPERPOWERED
                                    ELSE SOUNDTOUCH

\* A request for the unavailable Superpowered backend has fallen back.
FallbackTaken ==
    /\ lastOp.op = "setAudioEngine"
    /\ lastOp.a = SUPERPOWERED
    /\ ~eng.superpoweredAvailable
    /\ eng.currentEngine # SUPERPOWERED

\* C2: after battle_engine_set_audio_engine with an identifier outside the
\* enumeration, battle_engine_get_audio_engine returns the SoundTouch identifier.
OutOfRangeIsReference ==
    (lastOp.op = "setAudioEngine" /\ lastOp.a \notin EngineEnum) =>
        getAudioEngine = SOUNDTOUCH

\* C3: the Superpowered stretcher's rate is always clamp(speed, 0.25, 4.0) and
\* its pitch shift clamp(100 * pitchSemitones, -2400, 2400) cents.
LicensedParametersClamped ==
    ts.present =>
        /\ ts.rate = Clamp(eng.speed, 250, 4000)
        /\ ts.pitchShiftCents = Clamp(100 * eng.pitchSemitones, -2400, 2400)

(***************************************************************************)
(* The battle chain: the reference and the Rubberband routes, whose limiter *)
(* is BattleLimiter.                                                       *)
(***************************************************************************)
\* PCM input samples: negative full scale and a middle value.
ChainSamples == {-32768, 12000}

\* Gains of the stages ahead of the limiter (thousandths).
ChainGains == {1000, 4000}

\* Float samples handed back by the Rubberband stretcher (thousandths).
StretcherSamples == {0, 1000}

ProcessChain ==
    \E x \in ChainSamples, g \in ChainGains, r \in 0..ChainPushed,
       v \in StretcherSamples, abort \in BOOLEAN :
        /\ hist.pushed < ChainPushed
        /\ Process(x, 2, MaxCapacity, g, r, v, abort)

NextChain ==
    \/ \E engineType \in {SOUNDTOUCH, RUBBERBAND} : SetAudioEngine(engineType)
    \/ \E enabled \in BOOLEAN : SetBattleMode(enabled)
    \/ \E enabled \in BOOLEAN : SetLimiterEnabled(enabled)
    \/ \E amount \in {0, 12} : SetBassBoost(amount)
    \/ Configure(SmallRate, 1)
    \/ ProcessChain
    \/ Clear

\* The build with Rubberband and without a Superpowered license.
InitChain == Init /\ eng.rubberbandAvailable /\ ~eng.superpoweredAvailable

SpecChain == InitChain /\ [][NextChain]_vars

ConfigInputs ==
    {<<SmallRate, 1>>, <<SmallRate, 2>>,
     <<0, 2>>, <<-1, 2>>, <<SmallRate, 0>>, <<SmallRate, 3>>, <<SmallRate, -1>>}

ValidConfig(sampleRate, channels) == sampleRate > 0 /\ channels \in {1, 2}

ProcessConfigured ==
    \E numSamples \in 2..3, abort \in BOOLEAN :
        /\ hist.pushed < ConfigPushed
        /\ Process(12000, numSamples, MaxCapacity, 1000, 0, 0, abort)

NextConfigure ==
    \/ \E c \in ConfigInputs : Configure(c[1], c[2])
    \/ \E newSpeed \in {1000, 2000} : SetSpeed(newSpeed)
    \/ ProcessConfigured
    \/ Clear

\* The build with a Superpowered license and with Rubberband.
InitConfigure == Init /\ eng.superpoweredAvailable /\ eng.rubberbandAvailable

SpecConfigure == InitConfigure /\ [][NextConfigure]_vars

\* C5: a configure call with sampleRate <= 0 or channels outside {1, 2} is
\* rejected: the engine's sample rate and channel count, the backends' settings
\* and the filter state are what the call found.
InvalidConfigureRejected ==
    (lastOp.op = "configure" /\ ~ValidConfig(lastOp.a, lastOp.b)) =>
        /\ ~crashed
        /\ eng = lastOp.pre.eng
        /\ st = lastOp.pre.st
        /\ ts = lastOp.pre.ts
        /\ rb = lastOp.pre.rb
        /\ spfx = lastOp.pre.spfx
        /\ limiter = lastOp.pre.limiter
        /\ compressor = lastOp.pre.compressor
        /\ bassBoost = lastOp.pre.bassBoost
        /\ psycho = lastOp.pre.psycho

(***************************************************************************)
(* The reference stretcher: parameters are set on an empty engine, then    *)
(* blocks are pushed and the engine is flushed.                            *)
(***************************************************************************)
\* Half, normal and double speed (thousandths).
StretchSpeeds == {500, 1000, 2000}

\* An octave down, no shift, an octave up.
StretchPitches == {-12, 0, 12}

ProcessStretch ==
    \E numSamples \in 1..StretchBlock, capacity \in {2, MaxCapacity}, abort \in BOOLEAN :
        /\ hist.pushed + numSamples <= StretchPushed
        /\ Process(12000, numSamples, capacity, 1000, 0, 0, abort)

NextStretch ==
    \/ hist.pushed = 0 /\ Configure(SmallRate, 1)
    \/ \E newSpeed \in StretchSpeeds : hist.pushed = 0 /\ SetSpeed(newSpeed)
    \/ \E semitones \in StretchPitches : hist.pushed = 0 /\ SetPitch(semitones)
    \/ ProcessStretch
    \/ Flush
    \/ Clear

\* The build with the reference engine only.
InitReference == Init /\ ~eng.superpoweredAvailable /\ ~eng.rubberbandAvailable

SpecStretch == InitReference /\ [][NextStretch]_vars

\* C6: a process call reports no more samples than the caller's output array
\* holds, and stores no sample past its end.
OutputWithinCapacity ==
    lastOp.op = "process" =>
        /\ result.produced <= result.capacity
        /\ Len(result.output) <= result.capacity
        /\ ub # "oob_write"

\* C7: after flush() the SoundTouch object holds no unprocessed input.
FlushLeavesNoInput ==
    lastOp.op = "flush" => st.inputBuffer = <<>>

\* The frames the engine has emitted since the last clear(), with those a
\* further process call would still hand out.
TotalOutputFrames == hist.emitted + (Len(st.outputBuffer) \div st.channels)

\* C8: in independent speed/pitch mode on the reference backend, after N frames
\* were pushed and the engine was flushed, the frames emitted differ from
\* N / speed by at most one sequence window.
DurationFollowsSpeed ==
    (/\ lastOp.op = "flush"
     /\ ~eng.useRateMode
     /\ ub = "none"
     /\ st.channels > 0) =>
        Abs(TotalOutputFrames * eng.speed - hist.pushed * 1000)
            <= st.sequenceSamples * eng.speed

(***************************************************************************)
(* The pitch handed to the reference backend.                              *)
(***************************************************************************)
NextPitch ==
    \/ \E semitones \in (-MaxSemitones)..MaxSemitones : SetPitch(semitones)
    \/ \E newSpeed \in {1000, 2000} : SetSpeed(newSpeed)

SpecPitch == InitReference /\ [][NextPitch]_vars

\* C9: in independent speed/pitch mode the pitch ratio the SoundTouch object
\* holds is 2^(pitchSemitones / 12), for every pitch of [-36, 36].
PitchRatioExact ==
    ~eng.useRateMode => st.pitch = PitchMultiplier(eng.pitchSemitones)

(***************************************************************************)
(* The mode switches.                                                      *)
(***************************************************************************)
NextModes ==
    \/ \E enabled \in BOOLEAN : SetAudiophileMode(enabled)
    \/ \E enabled \in BOOLEAN : SetBattleMode(enabled)
    \/ \E enabled \in BOOLEAN : SetLimiterEnabled(enabled)
    \/ \E enabled \in BOOLEAN : SetHardwareProtection(enabled)
    \/ \E amount \in {0, 50} : SetExciterAmount(amount)
    \/ \E amount \in {0, 50} : SetSubHarmonicAmount(amount)
    \/ \E amount \in {0, 12} : SetBassBoost(amount)

SpecModes == Init /\ [][NextModes]_vars

\* C10: whenever audiophile mode is enabled, the compressor is disabled and the
\* exciter and sub-harmonic amounts are zero.
AudiophileKeepsChainOff ==
    eng.audiophileMode =>
        /\ ~compressor.enabled
        /\ eng.exciterAmount = 0 /\ psycho.excAmount = 0
        /\ eng.subHarmonicAmount = 0 /\ psycho.subAmount = 0

\* C11: with battle mode on, setAudiophileMode(true) directly followed by
\* setAudiophileMode(false) leaves the compressor's enabled flag and the exciter
\* amount (and so whether the exciter runs) as they were before audiophile mode
\* was entered.
AudiophileRoundTripRestores ==
    (/\ lastOp.op = "setAudiophileMode" /\ ~lastOp.on
     /\ lastOp.pre.taken /\ lastOp.pre.battleMode) =>
        /\ compressor.enabled = lastOp.pre.compressorEnabled
        /\ eng.exciterAmount = lastOp.pre.exciterAmount
        /\ (eng.exciterAmount > 0) = (lastOp.pre.exciterAmount > 0)

(***************************************************************************)
(* Rate mode: setRate among the other parameter setters, reconfiguration,  *)
(* backend selection, processing, flush and clear.                         *)
(***************************************************************************)
\* Speed arguments inside and above the range (thousandths).
SpeedArgs == {2000, 20000}

\* Pitch arguments below and inside the range (semitones).
PitchArgs == {-100, 12}

\* Rate arguments below and inside the range (thousandths).
RateArgs == {10, 2000}

ProcessRate ==
    \E r \in 0..RatePushed, abort \in BOOLEAN :
        /\ hist.pushed < RatePushed
        /\ Process(12000, 2, MaxCapacity, 1000, r, 0, abort)

NextRate ==
    \/ \E newRate \in RateArgs : SetRate(newRate)
    \/ \E newSpeed \in SpeedArgs : SetSpeed(newSpeed)
    \/ \E semitones \in PitchArgs : SetPitch(semitones)
    \/ Configure(SmallRate, 1)
    \/ \E engineType \in EngineEnum : SetAudioEngine(engineType)
    \/ ProcessRate
    \/ Flush
    \/ Clear

SpecRate == InitConfigure /\ [][NextRate]_vars

\* C12: setRate turns rate mode on, and no later setSpeed, setPitch, configure,
\* setAudioEngine, process or flush call turns it off again.
RateModeStays ==
    /\ [](lastOp.op = "setRate" => eng.useRateMode)
    /\ [][eng.useRateMode => eng'.useRateMode]_vars

\* Rate mode is still on after a setSpeed call that followed setRate.
RateModeAfterSetSpeed ==
    eng.useRateMode /\ lastOp.op = "setSpeed"

\* C13: clear() ends rate mode: after it the engine is in independent
\* speed/pitch mode.
ClearEndsRateMode ==
    lastOp.op = "clear" => ~eng.useRateMode

\* 1200 * log2(rate), in cents, for the rates the setters can store here.
RateCents(rate) ==
    CASE rate = 50 -> -5186 [] rate = 500 -> -1200 [] rate = 1000 -> 0
      [] rate = 2000 -> 1200 [] rate = 10000 -> 3986

\* C14: while rate mode is on, every backend's transform parameters come from
\* rate: the reference engine's rate is `rate` with tempo and pitch neutral, the
\* Superpowered stretcher's rate is clamp(rate, 0.25, 4.0) with a pitch shift of
\* 1200 * log2(rate) cents (clamped to two octaves), and Rubberband's time ratio
\* is 1 / rate with pitch scale `rate`.
RateModeDerivesFromRate ==
    eng.useRateMode =>
        /\ st.rate = eng.rate /\ st.tempo = 1000 /\ st.pitch = 1000
        /\ ts.present =>
              /\ ts.rate = Clamp(eng.rate, 250, 4000)
              /\ ts.pitchShiftCents = Clamp(RateCents(eng.rate), -2400, 2400)
        /\ rb.present =>
              /\ rb.timeRatio = 1000000 \div eng.rate
              /\ rb.pitchScale = eng.rate

\* C15: after a valid configure call has returned, the SoundTouch object holds
\* no audio pushed before the call: its input buffer and its output buffer are
\* empty.
ConfigureDiscardsAudio ==
    (lastOp.op = "configure" /\ ValidConfig(lastOp.a, lastOp.b) /\ ~crashed) =>
        /\ st.inputBuffer = <<>>
        /\ st.outputBuffer = <<>>

(***************************************************************************)
(* Backend switches with audio in flight and the battle chain running.     *)
(***************************************************************************)
ProcessSwitch ==
    \E g \in ChainGains, r \in 0..SwitchPushed, v \in StretcherSamples, abort \in BOOLEAN :
        /\ hist.pushed < SwitchPushed
        /\ Process(12000, 2, MaxCapacity, g, r, v, abort)

NextSwitch ==
    \/ \E engineType \in EngineEnum : SetAudioEngine(engineType)
    \/ \E enabled \in BOOLEAN : SetBattleMode(enabled)
    \/ Configure(SmallRate, 1)
    \/ ProcessSwitch

SpecSwitch == InitConfigure /\ [][NextSwitch]_vars

\* C16: a setAudioEngine call that changes the active backend leaves no
\* buffered audio in any backend and every chain filter (limiter gain,
\* compressor, bass boost, sub-harmonic and exciter) in its reset state.
SwitchClearsEverything ==
    (lastOp.op = "setAudioEngine" /\ eng.currentEngine # lastOp.pre.engine) =>
        /\ st.inputBuffer = <<>> /\ st.outputBuffer = <<>>
        /\ ts.buffered = 0 /\ rb.buffered = 0
        /\ limiter.currentGain = 10000
        /\ ~compressor.dirty /\ ~bassBoost.dirty /\ ~psycho.dirty

\* A switch to another backend found audio or filter state and discarded it.
SwitchDiscarded ==
    /\ lastOp.op = "setAudioEngine"
    /\ eng.currentEngine # lastOp.pre.engine
    /\ lastOp.pre.held
    /\ ~HoldsAudioOrState

\* C17: every setSpeed, setPitch and setRate call stores its argument clamped
\* to [0.05, 10.0], [-36, 36] and [0.05, 10.0] and leaves the other two values
\* alone, and no other call changes the three values: so each stored value is
\* the clamp of the last argument given for it.
ClampLaw ==
    [][/\ lastOp'.op = "setSpeed" =>
            /\ eng'.speed = Clamp(lastOp'.a, 50, 10000)
            /\ eng'.pitchSemitones = eng.pitchSemitones /\ eng'.rate = eng.rate
       /\ lastOp'.op = "setPitch" =>
            /\ eng'.pitchSemitones = Clamp(lastOp'.a, -36, 36)
            /\ eng'.speed = eng.speed /\ eng'.rate = eng.rate
       /\ lastOp'.op = "setRate" =>
            /\ eng'.rate = Clamp(lastOp'.a, 50, 10000)
            /\ eng'.speed = eng.speed /\ eng'.pitchSemitones = eng.pitchSemitones
       /\ lastOp'.op \notin {"setSpeed", "setPitch", "setRate"} =>
            /\ eng'.speed = eng.speed /\ eng'.rate = eng.rate
            /\ eng'.pitchSemitones = eng.pitchSemitones]_vars

\* setSpeed(20.0) has stored 10.0, setRate(0.01) 0.05, and setPitch(-100) has
\* just stored -36.
ClampedAtTheEnds ==
    /\ lastOp.op = "setPitch" /\ lastOp.a = -100
    /\ eng.pitchSemitones = -36
    /\ eng.speed = 10000
    /\ eng.rate = 50

(***************************************************************************)
(* process calls without input: a null pointer or a sample count <= 0.     *)
(***************************************************************************)
\* Sample counts: negative, zero and one stereo frame.
NullCounts == {-1, 0, 2}

ProcessNoInput ==
    \E numSamples \in NullCounts, nullInput \in BOOLEAN, x \in ChainSamples,
       r \in 0..NullPushed, abort \in BOOLEAN :
        /\ hist.pushed < NullPushed
        /\ ProcessCall(x, numSamples, MaxCapacity, 1000, r, 0, abort, nullInput)

NextNoInput ==
    \/ ProcessNoInput
    \/ \E engineType \in EngineEnum : SetAudioEngine(engineType)
    \/ Configure(SmallRate, 1)
    \/ Clear

SpecNoInput == Init /\ [][NextNoInput]_vars

\* C18: a process call with a null input pointer or a sample count <= 0 reports
\* zero produced samples, does not end the process, and leaves every backend
\* buffer and every filter as it found it.
NoInputIsNoOp ==
    (lastOp.op = "process" /\ (lastOp.on \/ lastOp.a <= 0)) =>
        /\ result.produced = 0
        /\ ~crashed
        /\ st = lastOp.pre.st /\ ts = lastOp.pre.ts /\ rb = lastOp.pre.rb
        /\ limiter = lastOp.pre.limiter /\ compressor = lastOp.pre.compressor
        /\ bassBoost = lastOp.pre.bassBoost /\ psycho = lastOp.pre.psycho

\* C19: a setSpeed(s) call that directly follows a setSpeed(s) call with the
\* same s changes nothing: the engine, the three stretchers, the Superpowered
\* effects and the chain filters are as the first call left them.
SetSpeedIdempotent ==
    (lastOp.op = "setSpeed" /\ lastOp.pre.taken) =>
        /\ eng = lastOp.pre.eng
        /\ st = lastOp.pre.st /\ ts = lastOp.pre.ts /\ rb = lastOp.pre.rb
        /\ spfx = lastOp.pre.spfx
        /\ limiter = lastOp.pre.limiter /\ compressor = lastOp.pre.compressor
        /\ bassBoost = lastOp.pre.bassBoost /\ psycho = lastOp.pre.psycho

\* setSpeed(2.0) was called twice in a row in independent speed/pitch mode,
\* with audio buffered in the reference engine.
SetSpeedRepeated ==
    /\ lastOp.op = "setSpeed" /\ lastOp.pre.taken
    /\ lastOp.a = 2000
    /\ ~eng.useRateMode
    /\ st.tempo = 2000
    /\ hist.pushed > 0

(***************************************************************************)
(* BattleCompressor::process in numbers, on a compressor object of its own. *)
(* Samples, envelope, gains and the threshold are in thousandths, the      *)
(* attack and release coefficients in ten-thousandths.  A compressor is a  *)
(* record [channels, attackCoeff, releaseCoeff, ratio, envelope,           *)
(* currentGain].                                                           *)
(***************************************************************************)
\* float threshold = 0.25f;
CompressorThreshold == 250

\* float makeupGain = 2.0f;
CompressorMakeup == 2000

\* The integer square root of n, by bisection between lo and hi
\* (lo * lo <= n < hi * hi).
RECURSIVE ISqrtIn(_, _, _)
ISqrtIn(n, lo, hi) ==
    IF hi - lo <= 1 THEN lo
    ELSE LET mid == (lo + hi) \div 2
         IN IF mid * mid <= n THEN ISqrtIn(n, mid, hi) ELSE ISqrtIn(n, lo, mid)

ISqrt(n) == ISqrtIn(n, 0, 8192)

\* std::exp(-1.0f / (ms * sampleRate / 1000.0f)) in ten-thousandths, for
\* attackMs = 5 and releaseMs = 100 at 44100 Hz and at 25 Hz.
CompressorCoeff(ms, sampleRate) ==
    CASE ms * sampleRate = 220500 -> 9954 [] ms * sampleRate = 4410000 -> 9997
      [] ms * sampleRate = 125 -> 3 [] ms * sampleRate = 2500 -> 6703

\* void setRatio(float ratio) { this->ratio = std::max(1.0f, ratio); }
Compressor_setRatio(c, ratio) == [c EXCEPT !.ratio = Max(1, ratio)]

\* A gain computer that expands: (envelope / threshold)^(1 - 1/ratio).
CompressorGainExpanding(envelope, ratio) ==
    IF envelope <= CompressorThreshold THEN 1000
    ELSE LET root == ISqrt(4 * envelope * 1000)
         IN CASE ratio = 1 -> 1000
              [] ratio = 2 -> root
              [] ratio = 4 -> (root * ISqrt(root * 1000)) \div 1000

\* The gain reduction: 1 up to the threshold, above it
\* 10^((overDb / ratio - overDb) / 20) = (envelope / threshold)^(1/ratio - 1),
\* for the ratios 1, 2 and 4; envelope / threshold is 4 * envelope.
CompressorGain(envelope, ratio) ==
    IF envelope <= CompressorThreshold THEN 1000
    ELSE LET root == ISqrt(4 * envelope * 1000)
         IN CASE ratio = 1 -> 1000
              [] ratio = 2 -> 1000000 \div root
              [] ratio = 4 -> 1000000000 \div (root * ISqrt(root * 1000))

\* The envelope follower's step for a frame whose peak is `peak`.
CompressorEnvelope(c, peak) ==
    LET coeff == IF peak > c.envelope THEN c.attackCoeff ELSE c.releaseCoeff
    IN (coeff * c.envelope + (10000 - coeff) * peak) \div 10000

\* void process(float* samples, int numSamples), the enabled case: the frames
\* of `samples` from frame f on.
RECURSIVE CompressorFrames(_, _, _)
CompressorFrames(c, samples, f) ==
    IF (f - 1) * c.channels >= Len(samples) THEN <<>>
    ELSE LET frame == SubSeq(samples, (f - 1) * c.channels + 1,
                             Min(f * c.channels, Len(samples)))
             envelope == CompressorEnvelope(c, PeakOf(frame))
             currentGain == (9 * c.currentGain + CompressorGain(envelope, c.ratio)) \div 10
         IN [i \in 1..Len(frame) |->
                TruncDiv(frame[i] * TruncDiv(currentGain * CompressorMakeup, 1000), 1000)]
            \o CompressorFrames([c EXCEPT !.envelope = envelope,
                                          !.currentGain = currentGain], samples, f + 1)

\* Float samples of a block (thousandths): below the threshold, above it, and
\* above full scale, of either sign.
CompressorSamples == {-4000, 200, 1000}

\* Blocks of CompressorBlock samples.
CompressorBlocks == [1..CompressorBlock -> CompressorSamples]

\* Arguments of setRatio; the first is below the smallest ratio it stores.
RatioArgs == {0, 1, 2, 4}

\* One input block through two compressors that differ in their ratio only;
\* the two are made once, next to a fresh engine.
CompressorProbe ==
    \E block \in CompressorBlocks, channels \in {1, 2}, sampleRate \in {25, 44100},
       envelope \in {0, 1000}, currentGain \in {500, 1000},
       lower \in RatioArgs, higher \in RatioArgs :
        /\ ~crashed
        /\ lastOp.op = "create"
        /\ lower < higher
        /\ LET c == [channels |-> channels,
                     attackCoeff |-> CompressorCoeff(5, sampleRate),
                     releaseCoeff |-> CompressorCoeff(100, sampleRate),
                     ratio |-> 4, envelope |-> envelope, currentGain |-> currentGain]
           IN lastOp' = Call("compressorProcess", lower, higher, FALSE,
                   [taken |-> TRUE, input |-> block, compressor |-> c,
                    outLower |-> CompressorFrames(Compressor_setRatio(c, lower), block, 1),
                    outHigher |-> CompressorFrames(Compressor_setRatio(c, higher), block, 1)])
        /\ UNCHANGED <<eng, st, ts, rb, spfx, limiter, compressor, bassBoost, psycho,
                       result, hist, ub, crashed>>

NextCompressor == CompressorProbe

SpecCompressor == InitReference /\ [][NextCompressor]_vars

\* C20: for the same input block, the same initial compressor state and the
\* same threshold, attack, release and makeup gain, the output peak with the
\* larger ratio is never above the output peak with the smaller ratio.
RatioNeverRaisesPeak ==
    lastOp.op = "compressorProcess" =>
        PeakOf(lastOp.pre.outHigher) <= PeakOf(lastOp.pre.outLower)

\* The larger ratio has lowered the output peak of a block that goes over the
\* threshold.
RatioLoweredPeak ==
    /\ lastOp.op = "compressorProcess"
    /\ lastOp.a = 2 /\ lastOp.b = 4
    /\ PeakOf(lastOp.pre.outHigher) < PeakOf(lastOp.pre.outLower)

(***************************************************************************)
(* flush() and the active backend.                                         *)
(***************************************************************************)
\* C21: flush() acts on the backend process() routes to: after it the SoundTouch
\* object holds no unprocessed input when the reference backend is active, the
\* Superpowered stretcher holds no frames when it is active, and the Rubberband
\* stretcher holds no frames when it is active.
FlushDrainsActiveBackend ==
    (lastOp.op = "flush" /\ ~crashed) =>
        /\ Route(eng, ts, rb) = SoundTouchRoute => st.inputBuffer = <<>>
        /\ Route(eng, ts, rb) = SuperpoweredRoute => ts.buffered = 0
        /\ Route(eng, ts, rb) = RubberbandRoute => rb.buffered = 0

(***************************************************************************)
(* The limiter's switches among the mode setters, on every route.          *)
(***************************************************************************)
ProcessGate ==
    \E r \in 0..GatePushed, v \in StretcherSamples, abort \in BOOLEAN :
        /\ hist.pushed < GatePushed
        /\ Process(-32768, 2, MaxCapacity, 1000, r, v, abort)

NextGate ==
    \/ \E enabled \in BOOLEAN : SetBattleMode(enabled)
    \/ \E enabled \in BOOLEAN : SetLimiterEnabled(enabled)
    \/ \E enabled \in BOOLEAN : SetAudiophileMode(enabled)
    \/ \E engineType \in EngineEnum : SetAudioEngine(engineType)
    \/ Configure(SmallRate, 1)
    \/ ProcessGate
    \/ Clear

SpecGate == Init /\ [][NextGate]_vars

\* C22: whatever setBattleMode, setLimiterEnabled and setAudiophileMode calls
\* came before, a process call that hands a block to the chain runs the limiter
\* stage over it if and only if battleMode and limiterEnabled are both true.
LimiterRunsIffEnabled ==
    (lastOp.op = "process" /\ result.produced > 0) =>
        (result.limited <=> (eng.battleMode /\ eng.limiterEnabled))

\* The limiter has run over a full-scale block of the reference backend and
\* reduced its gain, with audiophile mode entered along the way.
LimiterRanInAudiophile ==
    /\ lastOp.op = "process" /\ result.produced > 0
    /\ result.route = SoundTouchRoute
    /\ result.limited
    /\ eng.audiophileMode
    /\ limiter.currentGain < 10000

(***************************************************************************)
(* The reference engine's input buffer and its sequence window.            *)
(***************************************************************************)
\* The samples a process call of numSamples samples appends to the SoundTouch
\* object's input buffer: numSamples / channels frames of st.channels samples.
PushedSamples(numSamples) == TruncDiv(numSamples, eng.channels) * st.channels

\* C23: on the reference route, a process call whose push leaves the accumulated
\* input shorter than the sequence window adds nothing to the engine's output
\* and keeps every frame in the input buffer, behind those already there; a
\* push that brings the accumulated input to at least one sequence window
\* leaves the input buffer empty.
PushFillsWindow ==
    [][(/\ lastOp'.op = "process" /\ lastOp'.a > 0 /\ ~lastOp'.on
        /\ result'.route = SoundTouchRoute
        /\ eng.channels > 0 /\ st.channels > 0) =>
            IF (Len(st.inputBuffer) + PushedSamples(lastOp'.a)) \div st.channels
                   < st.sequenceSamples
            THEN /\ result'.produced + Len(st'.outputBuffer) = Len(st.outputBuffer)
                 /\ Len(st'.inputBuffer) = Len(st.inputBuffer) + PushedSamples(lastOp'.a)
                 /\ SubSeq(st'.inputBuffer, 1, Len(st.inputBuffer)) = st.inputBuffer
            ELSE st'.inputBuffer = <<>>]_vars

(***************************************************************************)
(* What clear() resets and what it keeps.                                  *)
(***************************************************************************)
\* C24: a clear() call leaves every backend buffer empty and every chain
\* filter in its reset state, and changes no configuration or parameter value:
\* the engine's sample rate, channel count, active backend, speed, pitch, rate
\* and mode switches, the settings the three stretchers hold, the switches of
\* the limiter, the compressor and the Superpowered effects, the bass-boost
\* gain and the sub-harmonic and exciter amounts.
ClearKeepsParameters ==
    [][lastOp'.op = "clear" =>
          /\ st'.inputBuffer = <<>> /\ st'.outputBuffer = <<>>
          /\ ts'.buffered = 0 /\ rb'.buffered = 0
          /\ limiter'.currentGain = 10000
          /\ ~compressor'.dirty /\ ~bassBoost'.dirty /\ ~psycho'.dirty
          /\ eng' = eng
          /\ st' = [st EXCEPT !.inputBuffer = <<>>, !.outputBuffer = <<>>]
          /\ ts' = [ts EXCEPT !.buffered = 0]
          /\ rb' = [rb EXCEPT !.buffered = 0]
          /\ spfx' = spfx
          /\ limiter'.enabled = limiter.enabled
          /\ limiter'.channels = limiter.channels
          /\ limiter'.attackSamples = limiter.attackSamples
          /\ limiter'.releaseSamples = limiter.releaseSamples
          /\ compressor'.enabled = compressor.enabled
          /\ bassBoost'.gainDb = bassBoost.gainDb
          /\ bassBoost'.channels = bassBoost.channels
          /\ psycho'.subAmount = psycho.subAmount
          /\ psycho'.excAmount = psycho.excAmount]_vars

\* clear() has discarded audio or filter state while battle mode was on, the
\* limiter off, the bass boost at 12 dB and the Rubberband backend active.
ClearedWithParametersSet ==
    /\ lastOp.op = "clear" /\ lastOp.pre.held
    /\ ~HoldsAudioOrState
    /\ eng.battleMode /\ ~eng.limiterEnabled
    /\ eng.bassBoostAmount = 12 /\ bassBoost.gainDb = 12
    /\ eng.currentEngine = RUBBERBAND

(***************************************************************************)
(* The reference route with battle mode off: battle mode is toggled        *)
(* between the blocks of one stream.                                       *)
(***************************************************************************)
ProcessBypass ==
    \E x \in ChainSamples, g \in ChainGains, abort \in BOOLEAN :
        /\ hist.pushed < BypassPushed
        /\ Process(x, 2, MaxCapacity, g, 0, 0, abort)

NextBypass ==
    \/ \E enabled \in BOOLEAN : SetBattleMode(enabled)
    \/ \E enabled \in BOOLEAN : SetLimiterEnabled(enabled)
    \/ Configure(SmallRate, 1)
    \/ ProcessBypass
    \/ Clear

SpecBypass == InitReference /\ [][NextBypass]_vars

\* C25: a process call made with battle mode off on the reference route writes
\* to the output exactly the samples the SoundTouch object hands out for the
\* pushed block, in their order, reports their number, and leaves the limiter,
\* the compressor, the bass boost and the sub-harmonic and exciter state as it
\* found them.
BypassIsTransparent ==
    [][(/\ lastOp'.op = "process" /\ lastOp'.a > 0
        /\ ~eng.battleMode
        /\ result'.route = SoundTouchRoute
        /\ eng.channels > 0) =>
            /\ limiter' = limiter /\ compressor' = compressor
            /\ bassBoost' = bassBoost /\ psycho' = psycho
            /\ result'.produced = Len(result'.output)
            /\ \E x \in ChainSamples :
                  result'.output =
                      receiveSamples(putSamples(st, [i \in 1..lastOp'.a |-> x],
                                                TruncDiv(lastOp'.a, eng.channels)),
                                     MaxOutputFrames).out]_vars

\* With battle mode off, a full-scale block came out of the reference route
\* as it was, past a limiter that holds a reduced gain and a compressor off
\* its reset state.
BypassedFullScale ==
    /\ lastOp.op = "process"
    /\ ~eng.battleMode
    /\ result.route = SoundTouchRoute
    /\ result.produced > 0 /\ result.output[1] = -32768
    /\ limiter.enabled /\ limiter.currentGain < 10000
    /\ compressor.dirty

(***************************************************************************)
(* Hardware protection among the switches that reach the processing paths. *)
(***************************************************************************)
\* What a process call made now would leave and emit, for a block of
\* numSamples copies of x and the choices g, r and v of the routines.
ProcessOutcome(x, numSamples, g, r, v) ==
    RoutedProcess(Route(eng, ts, rb), [i \in 1..numSamples |-> x], numSamples, g, r, v)

\* <<sample, gain ahead of the limiter, frames handed back by a stretcher>>.
OutcomeChoices == ChainSamples \X ChainGains \X {0, GatePushed}

\* What a setHardwareProtection call finds: what a process call of one block
\* would do, for each of the choices.
OutcomeSnapshot ==
    [taken |-> TRUE,
     outcome |-> [c \in OutcomeChoices |-> ProcessOutcome(c[1], 2, c[2], c[3], 1000)]]

NextProtect ==
    \/ \E enabled \in BOOLEAN : SetHardwareProtectionCall(enabled, OutcomeSnapshot)
    \/ \E enabled \in BOOLEAN : SetBattleMode(enabled)
    \/ \E enabled \in BOOLEAN : SetLimiterEnabled(enabled)
    \/ \E engineType \in EngineEnum : SetAudioEngine(engineType)
    \/ Configure(SmallRate, 1)
    \/ ProcessGate
    \/ Clear

SpecProtect == InitConfigure /\ [][NextProtect]_vars

ResampleReadsInside ==
    ub # "oob_read"

(***************************************************************************)
(* Reconfiguration between valid formats with audio buffered in the        *)
(* reference engine.                                                       *)
(***************************************************************************)
\* <<sampleRate, channels>>: mono and stereo at a sample rate that makes the
\* sequence window four frames long.
FrameConfigs == {<<2 * SmallRate, 1>>, <<2 * SmallRate, 2>>}

NextFrames ==
    \/ \E c \in FrameConfigs : Configure(c[1], c[2])
    \/ ProcessStretch
    \/ Flush
    \/ Clear

SpecFrames == InitReference /\ [][NextFrames]_vars

\* C28: in every state reached by valid configure calls and process, flush and
\* clear calls, the SoundTouch object's input buffer and output buffer each hold
\* a whole number of frames of the current channel count.
FramesStayWhole ==
    /\ Len(st.inputBuffer) % st.channels = 0
    /\ Len(st.outputBuffer) % st.channels = 0

(***************************************************************************)
(* The reference backend's output queue across speed changes, flushes and  *)
(* reconfigurations.                                                       *)
(***************************************************************************)
\* <<sampleRate, channels>>: mono and stereo with a sequence window of two frames.
FifoConfigs == {<<SmallRate, 1>>, <<SmallRate, 2>>}

NextFifo ==
    \/ \E c \in FifoConfigs : Configure(c[1], c[2])
    \/ \E newSpeed \in {1000, 10000} : SetSpeed(newSpeed)
    \/ ProcessStretch
    \/ Flush

SpecFifo == InitReference /\ [][NextFifo]_vars

\* C29: a process call on the reference route hands out the oldest ready
\* frames, at most 32768 of them, and leaves the others queued behind: the
\* samples it writes followed by the samples left in the output buffer are the
\* samples that were ready once the block was pushed, each once and in order.
HandOffIsFifo ==
    [][(/\ lastOp'.op = "process" /\ lastOp'.a > 0
        /\ result'.route = SoundTouchRoute
        /\ ~eng.battleMode
        /\ eng.channels > 0 /\ st.channels > 0) =>
            /\ result'.produced = Len(result'.output)
            /\ result'.produced <= MaxOutputFrames * st.channels
            /\ result'.output \o st'.outputBuffer =
                   putSamples(st, [i \in 1..lastOp'.a |-> 12000],
                              TruncDiv(lastOp'.a, eng.channels)).outputBuffer]_vars

(***************************************************************************)
(* Backend requests that fall back to the active backend.                  *)
(***************************************************************************)
\* C30: a setAudioEngine call after which the active backend is the one that
\* was active before it (the request was for it, or fell back to it) leaves
\* the audio buffered in the three backends and the state of the chain
\* filters as it found them.
SameBackendKeepsAudio ==
    [][(lastOp'.op = "setAudioEngine" /\ eng'.currentEngine = eng.currentEngine) =>
          /\ st'.inputBuffer = st.inputBuffer /\ st'.outputBuffer = st.outputBuffer
          /\ ts'.buffered = ts.buffered /\ rb'.buffered = rb.buffered
          /\ limiter'.currentGain = limiter.currentGain
          /\ compressor'.dirty = compressor.dirty
          /\ bassBoost'.dirty = bassBoost.dirty
          /\ psycho'.dirty = psycho.dirty]_vars

====
